---- MODULE Spec2Model ----
(***************************************************************************)
(* Task orchestration and progress streaming of the research API:          *)
(*   api/research_service.py  ResearchTaskManager (task store, routines)   *)
(*   api/websocket_manager.py WebSocketManager    (fan-out, replay cache)  *)
(*   api/main.py              request handlers    (create, cancel, stream) *)
(* The process is one asyncio event loop: a handler or a routine runs      *)
(* without interruption from one await that suspends to the next.          *)
(***************************************************************************)
EXTENDS Integers, Sequences, FiniteSets, TLC

(***************************************************************************)
(* Bounds of the model.                                                    *)
(***************************************************************************)
MaxTasks == 1
MaxConns == 2
MaxIssues == 1
MaxSources == 1
AdapterMax == 1
MaxCandidates == 2
MaxTopics == 1
(* SpecPair: two tasks side by side. *)
PairTasks == 2
PairConns == 1
PairIssues == 0
PairCandidates == 2
(* SpecSolo: one task with the whole range of query lists. *)
SoloConns == 1
SoloIssues == 3
SoloSources == 2
SoloResults == 2
SoloCandidates == 6
SoloTopics == 2
(* SpecDown: the search adapter fails at every call. *)
DownTasks == 1
FanoutTasks == 1
FanoutConns == 3
FairTasks == 1
FairConns == 1
FairIssues == 1
FairCandidates == 2
DownConns == 1
DownIssues == 1
DownCandidates == 3

(***************************************************************************)
(* Program constants.                                                      *)
(***************************************************************************)
QueryLimit == 5
QuickResults == 2
DeeperResults == 3
CompareResults == 2
AnalyzePercent == 90
ComparePercent == 95
DonePercent == 100
MinCompare == 2
MaxCompare == 5

Min(a, b) == IF a < b THEN a ELSE b

Depths == {"quick", "standard", "deep"}
AllTopics == <<"housing", "transit", "safety">>

RECURSIVE SeqsUpTo(_, _)
SeqsUpTo(S, n) ==
    IF n = 0 THEN {<<>>}
    ELSE LET shorter == SeqsUpTo(S, n - 1)
         IN  shorter \cup {Append(s, x) : s \in {t \in shorter : Len(t) = n - 1}, x \in S}

SeqRange(s) == {s[i] : i \in 1..Len(s)}

Take(s, n) == SubSeq(s, 1, Min(n, Len(s)))

(***************************************************************************)
(* The roster and its case-insensitive lookup.                             *)
(***************************************************************************)
MAYORAL_CANDIDATES ==
    <<"London Breed", "Daniel Lurie", "Aaron Peskin", "Mark Farrell", "Ahsha Safai">>

Lower(name) ==
    CASE name = "London Breed" -> "london breed"
      [] name = "LONDON BREED" -> "london breed"
      [] name = "Daniel Lurie" -> "daniel lurie"
      [] name = "Aaron Peskin" -> "aaron peskin"
      [] name = "Mark Farrell" -> "mark farrell"
      [] name = "Ahsha Safai" -> "ahsha safai"
      [] OTHER -> name

NoCandidate == "<none>"

(* A lookup that falls back to the first candidate of the roster. *)
_get_candidate_info_or_first(name) ==
    LET hits == {i \in 1..Len(MAYORAL_CANDIDATES) :
                    Lower(MAYORAL_CANDIDATES[i]) = Lower(name)}
    IN  IF hits = {} THEN MAYORAL_CANDIDATES[1]
        ELSE MAYORAL_CANDIDATES[CHOOSE i \in hits : \A j \in hits : i <= j]

_get_candidate_info(name) ==
    LET hits == {i \in 1..Len(MAYORAL_CANDIDATES) :
                    Lower(MAYORAL_CANDIDATES[i]) = Lower(name)}
    IN  IF hits = {} THEN NoCandidate
        ELSE MAYORAL_CANDIDATES[CHOOSE i \in hits : \A j \in hits : i <= j]

(***************************************************************************)
(* _build_search_queries: a query is the template used and its issue.      *)
(***************************************************************************)
NoIssue == "-"

Query(kind, issue) == [kind |-> kind, issue |-> issue]

(* One query per issue whatever the depth. *)
IssueQueriesOnePerIssue(issues, depth) ==
    [i \in 1..Len(issues) |-> Query("position", issues[i])]

RECURSIVE IssueQueries(_, _)
IssueQueries(issues, depth) ==
    IF issues = <<>> THEN <<>>
    ELSE (IF depth = "quick"
          THEN <<Query("position", Head(issues))>>
          ELSE <<Query("policy", Head(issues)), Query("voting", Head(issues))>>)
         \o IssueQueries(Tail(issues), depth)

LimitQueriesUnbounded(queries) == queries

LimitQueries(queries) == Take(queries, QueryLimit)

_build_search_queries(issues, depth, include_voting_records) ==
    LimitQueries(
        IssueQueries(issues, depth)
        \o (IF depth \in {"standard", "deep"}
            THEN <<Query("campaign", NoIssue)>> ELSE <<>>)
        \o (IF depth = "deep" /\ include_voting_records
            THEN <<Query("board", NoIssue)>> ELSE <<>>))

ProgressRemaining(idx, total) == ((total - idx) * 100) \div total

Progress(idx, total) == (idx * 100) \div total

MaxResultsFor(depth) == IF depth = "quick" THEN QuickResults ELSE DeeperResults

(***************************************************************************)
(* State.                                                                  *)
(*   task                the task dicts, one object per created id; the    *)
(*                       stores and the routine share the object           *)
(*   active_tasks        keys of ResearchTaskManager.active_tasks          *)
(*   completed_research  keys of ResearchTaskManager.completed_research    *)
(*   files               ids with a results file in research_results/     *)
(*   frame               the local state of each execution routine         *)
(*   running             the routine that is between two awaits, if any    *)
(*   active_connections  WebSocketManager.active_connections               *)
(*   progress_cache      WebSocketManager.progress_cache                   *)
(*   ws                  each websocket: transport state and task id       *)
(*   received            the last message each websocket was sent          *)
(*   resp                the response of the request handled last          *)
(*   limits              the bounds the behaviour is explored under        *)
(***************************************************************************)
VARIABLES task, active_tasks, completed_research, files, frame, running,
          active_connections, progress_cache, ws, received, resp, limits, flight

TaskIds == 1..limits.tasks
UnknownId == limits.tasks + 1
AllIds == TaskIds \cup {UnknownId}
Conns == 1..limits.conns

store == <<task, active_tasks, completed_research, files>>
fanout == <<active_connections, progress_cache, ws, received>>
vars == <<task, active_tasks, completed_research, files, frame, running,
          active_connections, progress_cache, ws, received, resp, limits, flight>>

created == DOMAIN task

Label(kind, at) == [kind |-> kind, at |-> at]

Msg(type, pct, n, text) == [type |-> type, pct |-> pct, n |-> n, text |-> text]
NoMsg == Msg("none", 0, 0, "")
ProgressMsg(pct, found) == Msg("progress", pct, found, "")
SourceMsg(k) == Msg("source", 0, k, "")
CompleteMsg(total) == Msg("complete", 0, total, "")
ErrorMsg(text) == Msg("error", 0, 0, text)
CancelledByUser == "Research cancelled by user"

Response(op, id, res) == [op |-> op, id |-> id, res |-> res]
NoResp == Response("none", 0, "")

IdleSocket == [st |-> "idle", id |-> 0]

Limits(tasks, conns, issues, topics, sources, results, candidates, observed) ==
    [tasks |-> tasks, conns |-> conns, issues |-> issues, topics |-> topics,
     sources |-> sources, results |-> results, candidates |-> candidates,
     observed |-> observed]

(* resp and received record what clients see; they are kept only where limits.observed. *)
Answer(response) ==
    /\ resp' = IF limits.observed THEN response ELSE NoResp
    /\ UNCHANGED <<limits, flight>>

Sent(messages) == received' = IF limits.observed THEN messages ELSE received

Quiet == Answer(NoResp)

(* The broadcast that is suspended in a send_json, if any: the list iterator of its loop
   (the bucket object it walks, while attached, and the count of items it has yielded), the
   connection of the pending send and the disconnected list. *)
NoFlight ==
    [id |-> 0, message |-> NoMsg, i |-> 0, to |-> 0, disconnected |-> <<>>,
     attached |-> FALSE, stayed |-> {}]

InitWith(bounds) ==
    /\ limits = bounds
    /\ task = <<>>
    /\ active_tasks = {}
    /\ completed_research = {}
    /\ files = {}
    /\ frame = <<>>
    /\ running = {}
    /\ active_connections = <<>>
    /\ progress_cache = <<>>
    /\ ws = [c \in 1..bounds.conns |-> IdleSocket]
    /\ received = [c \in 1..bounds.conns |-> NoMsg]
    /\ resp = NoResp
    /\ flight = NoFlight

Init ==
    InitWith(Limits(MaxTasks, MaxConns, MaxIssues, MaxTopics, MaxSources, AdapterMax,
                    MaxCandidates, TRUE))

(***************************************************************************)
(* ResearchTaskManager.get_task_status: the active set, then the           *)
(* completed set.                                                          *)
(***************************************************************************)
NoTask == [type |-> "none", status |-> "none", percent_complete |-> 0,
           current_task |-> Label("none", 0), sources_found |-> 0]

get_task_status(id) ==
    IF id \in active_tasks THEN task[id]
    ELSE IF id \in completed_research THEN task[id]
    ELSE NoTask

(***************************************************************************)
(* WebSocketManager.disconnect and broadcast_to_research.                  *)
(***************************************************************************)
Bucket(id) == IF id \in DOMAIN active_connections THEN active_connections[id] ELSE <<>>

RECURSIVE RemoveFirst(_, _)
RemoveFirst(list, x) ==
    IF list = <<>> THEN <<>>
    ELSE IF Head(list) = x THEN Tail(list)
    ELSE <<Head(list)>> \o RemoveFirst(Tail(list), x)

(* A removal without the membership test: it takes the head when the websocket is absent. *)
disconnectUnguarded(conns, websocket, id) ==
    IF id \notin DOMAIN conns THEN conns
    ELSE LET left == IF websocket \in SeqRange(conns[id])
                     THEN RemoveFirst(conns[id], websocket) ELSE Tail(conns[id])
         IN  IF left = <<>> THEN [k \in DOMAIN conns \ {id} |-> conns[k]]
             ELSE [conns EXCEPT ![id] = left]

(* A removal that keeps the bucket when its last connection leaves. *)
disconnectKeepsBucket(conns, websocket, id) ==
    IF id \notin DOMAIN conns THEN conns
    ELSE [conns EXCEPT ![id] = IF websocket \in SeqRange(conns[id])
                               THEN RemoveFirst(conns[id], websocket) ELSE conns[id]]

disconnect(conns, websocket, id) ==
    IF id \notin DOMAIN conns THEN conns
    ELSE LET left == IF websocket \in SeqRange(conns[id])
                     THEN RemoveFirst(conns[id], websocket) ELSE conns[id]
         IN  IF left = <<>> THEN [k \in DOMAIN conns \ {id} |-> conns[k]]
             ELSE [conns EXCEPT ![id] = left]

RECURSIVE DisconnectEach(_, _, _)
DisconnectEach(conns, disconnected, id) ==
    IF disconnected = <<>> THEN conns
    ELSE DisconnectEach(disconnect(conns, Head(disconnected), id), Tail(disconnected), id)

SendRaises(c) == ws[c].st # "open"

ReplayedToFirstOnly(id, alive) ==
    IF id \in DOMAIN progress_cache /\ alive /\ Bucket(id) = <<>>
    THEN progress_cache[id] ELSE NoMsg

(* connect: "Send any cached progress immediately". *)
CachedReplay(id, alive) ==
    IF id \in DOMAIN progress_cache /\ alive THEN progress_cache[id] ELSE NoMsg

(* A broadcast that keeps the connections whose send raised. *)
DisconnectedNone(id) == <<>>

Disconnected(id) == LET Raises(c) == SendRaises(c) IN SelectSeq(Bucket(id), Raises)

(* A broadcast that returns before it caches when the id has no bucket. *)
broadcast_unless_empty(id, message) ==
    IF id \notin DOMAIN active_connections
    THEN UNCHANGED <<active_connections, progress_cache, ws, received>>
    ELSE /\ progress_cache' = (id :> message) @@ progress_cache
         /\ active_connections' = DisconnectEach(active_connections, Disconnected(id), id)
         /\ Sent([c \in Conns |->
                     IF c \in SeqRange(Bucket(id)) /\ ~SendRaises(c) THEN message
                     ELSE IF c \in SeqRange(Bucket(id)) /\ ws[c].st = "exited" THEN NoMsg
                     ELSE received[c]])
         /\ ws' = [c \in Conns |->
                     IF c \in SeqRange(Bucket(id)) /\ ws[c].st = "exited" THEN IdleSocket
                     ELSE ws[c]]

broadcast_to_research(id, message) ==
    /\ progress_cache' = (id :> message) @@ progress_cache
    /\ active_connections' = DisconnectEach(active_connections, Disconnected(id), id)
    /\ Sent([c \in Conns |->
                IF c \in SeqRange(Bucket(id)) /\ ~SendRaises(c) THEN message
                ELSE IF c \in SeqRange(Bucket(id)) /\ ws[c].st = "exited" THEN NoMsg
                ELSE received[c]])
    /\ ws' = [c \in Conns |->
                IF c \in SeqRange(Bucket(id)) /\ ws[c].st = "exited" THEN IdleSocket
                ELSE ws[c]]

(* A routine's await of a send gives up the event loop only when a delivery is attempted. *)
AwaitSend(id) == running' = IF Bucket(id) = <<>> THEN {id} ELSE {}

Suspend == running' = {}

MayRun(id) == id \in created /\ running \subseteq {id}

HandlerMayRun == running = {}

(* The event loop runs a routine's first segment before any request that names its id. *)
Known(id) == id \in created /\ frame[id].pc # "start"

(***************************************************************************)
(* Inputs of the create handlers.                                          *)
(***************************************************************************)
RosterNames == {"London Breed", "LONDON BREED"}
OtherNames == {"Nobody"}
Topics == {AllTopics[i] : i \in 1..limits.topics}
IssueLists == SeqsUpTo(Topics, limits.issues)
SourceCaps == 1..limits.sources
CandidateLists ==
    {Take(MAYORAL_CANDIDATES \o <<"London Breed">>, n) : n \in 1..limits.candidates}
    \cup {<<"London Breed", "Nobody">>}

(* uuid.uuid4(): a value no earlier call returned. *)
uuid4Reused == TaskIds

uuid4 == TaskIds \ created

NewTask(type, label) ==
    [type |-> type, status |-> "processing", percent_complete |-> 0,
     current_task |-> Label(label, 0), sources_found |-> 0]

NewFrame(kind, items, max_results, max_sources) ==
    [kind |-> kind, pc |-> "start", items |-> items, idx |-> 0, sources |-> 0,
     pending |-> 0, calls |-> 0, max_results |-> max_results, max_sources |-> max_sources]

(***************************************************************************)
(* research_candidate -> ResearchTaskManager.start_candidate_research      *)
(***************************************************************************)
start_candidate_research(research_id, issues, depth, include_voting_records, max_sources) ==
    /\ task' = (research_id :> NewTask("candidate", "Initializing research...")) @@ task
    /\ active_tasks' = active_tasks \cup {research_id}
    /\ frame' = (research_id :>
                   NewFrame("candidate",
                            _build_search_queries(issues, depth, include_voting_records),
                            MaxResultsFor(depth), max_sources)) @@ frame

research_candidate(candidate_name, issues, depth, include_voting_records, max_sources) ==
    /\ HandlerMayRun
    /\ IF _get_candidate_info(candidate_name) = NoCandidate
       THEN /\ Answer(Response("create", 0, "NotFound"))
            /\ UNCHANGED <<task, active_tasks, frame>>
       ELSE \E research_id \in uuid4 :
               /\ start_candidate_research(research_id, issues, depth,
                                           include_voting_records, max_sources)
               /\ Answer(Response("create", research_id, "processing"))
    /\ UNCHANGED <<completed_research, files, running, fanout>>

(***************************************************************************)
(* compare_candidates -> ResearchTaskManager.start_comparison_research     *)
(***************************************************************************)
CompareRequestValid(candidates) ==
    Len(candidates) >= MinCompare /\ Len(candidates) <= MaxCompare

start_comparison_research(research_id, candidates) ==
    /\ task' = (research_id :> NewTask("comparison", "Initializing comparison...")) @@ task
    /\ active_tasks' = active_tasks \cup {research_id}
    /\ frame' = (research_id :>
                   NewFrame("comparison",
                            [i \in 1..Len(candidates) |-> _get_candidate_info(candidates[i])],
                            CompareResults, 0)) @@ frame

compare_candidates(candidates) ==
    /\ HandlerMayRun
    /\ IF ~CompareRequestValid(candidates)
       THEN /\ Answer(Response("compare", 0, "InvalidArgument"))
            /\ UNCHANGED <<task, active_tasks, frame>>
       ELSE IF \E i \in 1..Len(candidates) : _get_candidate_info(candidates[i]) = NoCandidate
       THEN /\ Answer(Response("compare", 0, "NotFound"))
            /\ UNCHANGED <<task, active_tasks, frame>>
       ELSE \E research_id \in uuid4 :
               /\ start_comparison_research(research_id, candidates)
               /\ Answer(Response("compare", research_id, "processing"))
    /\ UNCHANGED <<completed_research, files, running, fanout>>

(***************************************************************************)
(* The execution routines, _execute_candidate_research and                 *)
(* _execute_comparison_research, one action per stretch between awaits.    *)
(* frame[id].pc names the await the routine is in:                         *)
(*   start          scheduled by create_task, not yet run                  *)
(*   sent_progress  await send_progress at the top of the loop             *)
(*   search         await asyncio.to_thread(run_tavily_search, ...)        *)
(*   sent_source    await send_source_discovered                           *)
(*   sleep          await asyncio.sleep(0.5)                               *)
(*   sent_analyze   await send_progress(90) after the loop (candidate)     *)
(*   finish         after the loop, nothing awaited (comparison)           *)
(*   sent_complete  await send_complete                                    *)
(*   sent_error     await send_error in the handler of the outer try       *)
(*   done           returned                                               *)
(***************************************************************************)
Total(f) == Len(f.items)

(* A loop whose progress is written to one record shared by all tasks. *)
LoopTopShared(id, f, idx) ==
    IF idx < Total(f)
    THEN /\ task' = [t \in DOMAIN task |->
                        [task[t] EXCEPT !.percent_complete = Progress(idx, Total(f)),
                                        !.current_task = Label("Searching", idx + 1)]]
         /\ frame' = [frame EXCEPT ![id] = [f EXCEPT !.idx = idx, !.pc = "sent_progress"]]
         /\ broadcast_to_research(id, ProgressMsg(Progress(idx, Total(f)), f.sources))
         /\ AwaitSend(id)
    ELSE IF f.kind = "candidate"
    THEN /\ task' = [task EXCEPT ![id].current_task = Label("Analyzing positions...", 0),
                                 ![id].percent_complete = AnalyzePercent]
         /\ frame' = [frame EXCEPT ![id] = [f EXCEPT !.idx = idx, !.pc = "sent_analyze"]]
         /\ broadcast_to_research(id, ProgressMsg(AnalyzePercent, f.sources))
         /\ AwaitSend(id)
    ELSE /\ task' = [task EXCEPT ![id].percent_complete = ComparePercent,
                                 ![id].current_task = Label("Generating comparison...", 0)]
         /\ frame' = [frame EXCEPT ![id] = [f EXCEPT !.idx = idx, !.pc = "finish"]]
         /\ running' = {id}
         /\ UNCHANGED fanout

(* The top of the for loop at index idx, or the code after the loop. *)
LoopTop(id, f, idx) ==
    IF idx < Total(f)
    THEN /\ task' = [task EXCEPT ![id].percent_complete = Progress(idx, Total(f)),
                                 ![id].current_task = Label("Searching", idx + 1)]
         /\ frame' = [frame EXCEPT ![id] = [f EXCEPT !.idx = idx, !.pc = "sent_progress"]]
         /\ broadcast_to_research(id, ProgressMsg(Progress(idx, Total(f)), f.sources))
         /\ AwaitSend(id)
    ELSE IF f.kind = "candidate"
    THEN /\ task' = [task EXCEPT ![id].current_task = Label("Analyzing positions...", 0),
                                 ![id].percent_complete = AnalyzePercent]
         /\ frame' = [frame EXCEPT ![id] = [f EXCEPT !.idx = idx, !.pc = "sent_analyze"]]
         /\ broadcast_to_research(id, ProgressMsg(AnalyzePercent, f.sources))
         /\ AwaitSend(id)
    ELSE /\ task' = [task EXCEPT ![id].percent_complete = ComparePercent,
                                 ![id].current_task = Label("Generating comparison...", 0)]
         /\ frame' = [frame EXCEPT ![id] = [f EXCEPT !.idx = idx, !.pc = "finish"]]
         /\ running' = {id}
         /\ UNCHANGED fanout

RoutineStart(id) ==
    /\ MayRun(id)
    /\ frame[id].pc = "start"
    /\ LoopTop(id, frame[id], 0)
    /\ Quiet
    /\ UNCHANGED <<active_tasks, completed_research, files>>

SearchCall(id) ==
    /\ MayRun(id)
    /\ frame[id].pc = "sent_progress"
    /\ frame' = [frame EXCEPT ![id].pc = "search", ![id].calls = @ + 1]
    /\ Suspend
    /\ Quiet
    /\ UNCHANGED <<store, fanout>>

(* The search raised: the inner except logs and continues with the next index. *)
SearchContinue(id, f) == LoopTop(id, f, f.idx + 1)

SearchPropagates(id, f) ==
    /\ task' = [task EXCEPT ![id].status = "failed",
                            ![id].current_task = Label("Error: search", 0)]
    /\ frame' = [frame EXCEPT ![id] = [f EXCEPT !.pc = "sent_error"]]
    /\ broadcast_to_research(id, ErrorMsg("search"))
    /\ AwaitSend(id)

OnSearchError(id, f) == SearchContinue(id, f)

SearchFails(id) ==
    /\ MayRun(id)
    /\ frame[id].pc = "search"
    /\ OnSearchError(id, frame[id])
    /\ Quiet
    /\ UNCHANGED <<active_tasks, completed_research, files>>

(* A pass that also writes the status back. *)
TakeResultRefreshing(id, f) ==
    /\ frame' = [frame EXCEPT ![id] = [f EXCEPT !.sources = f.sources + 1,
                                                !.pending = f.pending - 1,
                                                !.pc = "sent_source"]]
    /\ task' = [task EXCEPT ![id].sources_found = f.sources + 1,
                            ![id].status = "processing"]
    /\ broadcast_to_research(id, SourceMsg(f.sources + 1))
    /\ AwaitSend(id)

(* One pass of the loop over the results: append, count, notify. *)
TakeResult(id, f) ==
    /\ frame' = [frame EXCEPT ![id] = [f EXCEPT !.sources = f.sources + 1,
                                                !.pending = f.pending - 1,
                                                !.pc = "sent_source"]]
    /\ task' = IF f.kind = "candidate"
               THEN [task EXCEPT ![id].sources_found = f.sources + 1]
               ELSE task
    /\ broadcast_to_research(id, SourceMsg(f.sources + 1))
    /\ AwaitSend(id)

(* A pacing delay that never returns. *)
ToSleepForever(id, f) ==
    /\ frame' = [frame EXCEPT ![id] = [f EXCEPT !.pending = 0, !.pc = "asleep"]]
    /\ Suspend
    /\ UNCHANGED <<task, fanout>>

ToSleep(id, f) ==
    /\ frame' = [frame EXCEPT ![id] = [f EXCEPT !.pending = 0, !.pc = "sleep"]]
    /\ Suspend
    /\ UNCHANGED <<task, fanout>>

SearchReturns(id, n) ==
    /\ MayRun(id)
    /\ frame[id].pc = "search"
    /\ n <= Min(frame[id].max_results, limits.results)
    /\ IF n > 0
       THEN TakeResult(id, [frame[id] EXCEPT !.pending = n])
       ELSE ToSleep(id, frame[id])
    /\ Quiet
    /\ UNCHANGED <<active_tasks, completed_research, files>>

EnoughSources(f) == f.kind = "candidate" /\ f.sources >= f.max_sources

NextResult(id) ==
    /\ MayRun(id)
    /\ frame[id].pc = "sent_source"
    /\ IF EnoughSources(frame[id]) \/ frame[id].pending = 0
       THEN ToSleep(id, frame[id])
       ELSE TakeResult(id, frame[id])
    /\ Quiet
    /\ UNCHANGED <<active_tasks, completed_research, files>>

SleepReturns(id) ==
    /\ MayRun(id)
    /\ frame[id].pc = "sleep"
    /\ LoopTop(id, frame[id], frame[id].idx + 1)
    /\ Quiet
    /\ UNCHANGED <<active_tasks, completed_research, files>>

(* f"Error: {str(e)}" *)
ErrorLabel(error) == "Error: " \o error

(* An outer handler that only logs. *)
OuterExceptSilent(id, changed, error) ==
    /\ task' = changed
    /\ frame' = [frame EXCEPT ![id].pc = "sent_error"]
    /\ running' = {id}
    /\ UNCHANGED fanout

(* The handler of the outer try: mark failed, label with the error, notify. *)
OuterExcept(id, changed, error) ==
    /\ task' = [changed EXCEPT ![id].status = "failed",
                               ![id].current_task = Label(ErrorLabel(error), 0)]
    /\ frame' = [frame EXCEPT ![id].pc = "sent_error"]
    /\ broadcast_to_research(id, ErrorMsg(error))
    /\ AwaitSend(id)

CompleteLabel(f) == IF f.kind = "candidate" THEN "Research complete" ELSE "Comparison complete"

(* A completion that writes no results file. *)
FinishUnarchived(id, saved) ==
    /\ MayRun(id)
    /\ frame[id].pc \in {"sent_analyze", "finish"}
    /\ Quiet
    /\ IF ~saved
       THEN /\ OuterExcept(id, task, "OSError")
            /\ UNCHANGED <<active_tasks, completed_research, files>>
       ELSE LET marked == [task EXCEPT ![id].status = "completed",
                                       ![id].percent_complete = DonePercent,
                                       ![id].current_task = Label(CompleteLabel(frame[id]), 0)]
            IN  /\ files' = files
                /\ completed_research' = completed_research \cup {id}
                /\ IF id \in active_tasks
                   THEN /\ active_tasks' = active_tasks \ {id}
                        /\ task' = marked
                        /\ frame' = [frame EXCEPT ![id].pc = "sent_complete"]
                        /\ broadcast_to_research(id, CompleteMsg(frame[id].sources))
                        /\ AwaitSend(id)
                   ELSE /\ OuterExcept(id, marked, "KeyError")
                        /\ UNCHANGED active_tasks

(* _save_results, then "Mark complete" and the completion notice. *)
Finish(id, saved) ==
    /\ MayRun(id)
    /\ frame[id].pc \in {"sent_analyze", "finish"}
    /\ Quiet
    /\ IF ~saved
       THEN /\ OuterExcept(id, task, "OSError")
            /\ UNCHANGED <<active_tasks, completed_research, files>>
       ELSE LET marked == [task EXCEPT ![id].status = "completed",
                                       ![id].percent_complete = DonePercent,
                                       ![id].current_task = Label(CompleteLabel(frame[id]), 0)]
            IN  /\ files' = files \cup {id}
                /\ completed_research' = completed_research \cup {id}
                /\ IF id \in active_tasks
                   THEN /\ active_tasks' = active_tasks \ {id}
                        /\ task' = marked
                        /\ frame' = [frame EXCEPT ![id].pc = "sent_complete"]
                        /\ broadcast_to_research(id, CompleteMsg(frame[id].sources))
                        /\ AwaitSend(id)
                   ELSE /\ OuterExcept(id, marked, "KeyError")
                        /\ UNCHANGED active_tasks

Return(id) ==
    /\ MayRun(id)
    /\ frame[id].pc \in {"sent_complete", "sent_error"}
    /\ frame' = [frame EXCEPT ![id].pc = "done"]
    /\ Suspend
    /\ Quiet
    /\ UNCHANGED <<store, fanout>>

(***************************************************************************)
(* cancel_research (DELETE /api/v1/research/{research_id})                 *)
(***************************************************************************)
(* A cancel that accepts a task of any status. *)
CancelOutcomeLenient(id) ==
    IF get_task_status(id) = NoTask THEN "NotFound" ELSE "cancelled"

CancelOutcome(id) ==
    IF get_task_status(id) = NoTask THEN "NotFound"
    ELSE IF get_task_status(id).status # "processing" THEN "InvalidState"
    ELSE "cancelled"

cancel_research(id) ==
    /\ HandlerMayRun
    /\ Known(id) \/ id = UnknownId
    /\ Answer(Response("cancel", id, CancelOutcome(id)))
    /\ IF CancelOutcome(id) = "cancelled"
       THEN /\ task' = [task EXCEPT ![id].status = "cancelled"]
            /\ active_tasks' = active_tasks \ {id}
            /\ broadcast_to_research(id, ErrorMsg(CancelledByUser))
       ELSE UNCHANGED <<task, active_tasks, fanout>>
    /\ UNCHANGED <<completed_research, files, frame, running>>

(***************************************************************************)
(* research_websocket (/ws/research/{research_id}) and                     *)
(* WebSocketManager.connect                                                *)
(***************************************************************************)
connect(websocket, id, alive) ==
    /\ active_connections' =
          (id :> Append(Bucket(id), websocket)) @@ active_connections
    /\ ws' = [ws EXCEPT ![websocket] = [st |-> IF alive THEN "open" ELSE "broken", id |-> id]]
    /\ Sent([received EXCEPT ![websocket] = CachedReplay(id, alive)])
    /\ UNCHANGED progress_cache

(* A client opens the channel of a task; the transport may fail right after the accept. *)
WsOpen(websocket, id, alive) ==
    /\ HandlerMayRun
    /\ ws[websocket].st = "idle"
    /\ Known(id)
    /\ connect(websocket, id, alive)
    /\ Answer(Response("connect", id,
                       IF id \in DOMAIN progress_cache THEN "replayed" ELSE "accepted"))
    /\ UNCHANGED <<store, frame, running>>

(* The transport of an open channel fails; its handler has not seen it yet. *)
WsDrop(websocket) ==
    /\ HandlerMayRun
    /\ ws[websocket].st = "open"
    /\ ws' = [ws EXCEPT ![websocket].st = "broken"]
    /\ Quiet
    /\ UNCHANGED <<store, frame, running, active_connections, progress_cache, received>>

(* A disconnect that drops the cached message together with the bucket. *)
WsDisconnectForgets(websocket) ==
    /\ HandlerMayRun
    /\ ws[websocket].st \in {"open", "broken"}
    /\ active_connections' = disconnect(active_connections, websocket, ws[websocket].id)
    /\ progress_cache' =
          IF ws[websocket].id \in DOMAIN active_connections'
          THEN progress_cache
          ELSE [k \in DOMAIN progress_cache \ {ws[websocket].id} |-> progress_cache[k]]
    /\ ws' = [ws EXCEPT ![websocket] = IdleSocket]
    /\ Sent([received EXCEPT ![websocket] = NoMsg])
    /\ Quiet
    /\ UNCHANGED <<store, frame, running>>

(* receive_text raises WebSocketDisconnect (or another error): the handler disconnects. *)
WsDisconnect(websocket) ==
    /\ HandlerMayRun
    /\ ws[websocket].st \in {"open", "broken"}
    /\ active_connections' = disconnect(active_connections, websocket, ws[websocket].id)
    /\ ws' = [ws EXCEPT ![websocket] = IdleSocket]
    /\ Sent([received EXCEPT ![websocket] = NoMsg])
    /\ Quiet
    /\ UNCHANGED <<store, frame, running, progress_cache>>

(* A channel handler that cancels the task itself. *)
WsCancelMarksTask(websocket) ==
    /\ HandlerMayRun
    /\ ws[websocket].st = "open"
    /\ ws' = [ws EXCEPT ![websocket].st = "exited"]
    /\ Sent([received EXCEPT ![websocket] = Msg("cancelled", 0, 0, "")])
    /\ Quiet
    /\ task' = [task EXCEPT ![ws[websocket].id].status = "cancelled"]
    /\ UNCHANGED <<active_tasks, completed_research, files, frame, running,
                   active_connections, progress_cache>>

(* The client sends "cancel": the handler acknowledges and leaves its loop. *)
WsCancel(websocket) ==
    /\ HandlerMayRun
    /\ ws[websocket].st = "open"
    /\ ws' = [ws EXCEPT ![websocket].st = "exited"]
    /\ Sent([received EXCEPT ![websocket] = Msg("cancelled", 0, 0, "")])
    /\ Quiet
    /\ UNCHANGED <<store, frame, running, active_connections, progress_cache>>

(* The client sends "ping": the handler answers "pong". *)
WsPing(websocket) ==
    /\ HandlerMayRun
    /\ ws[websocket].st = "open"
    /\ Sent([received EXCEPT ![websocket] = Msg("pong", 0, 0, "")])
    /\ Quiet
    /\ UNCHANGED <<store, frame, running, active_connections, progress_cache, ws>>

(***************************************************************************)
(* The system.                                                             *)
(***************************************************************************)
Next ==
    \/ \E name \in RosterNames, issues \in IssueLists, depth \in Depths,
          include_voting_records \in BOOLEAN, max_sources \in SourceCaps :
          research_candidate(name, issues, depth, include_voting_records, max_sources)
    \/ \E name \in OtherNames : research_candidate(name, <<>>, "standard", TRUE, 1)
    \/ \E candidates \in CandidateLists : compare_candidates(candidates)
    \/ \E id \in TaskIds : RoutineStart(id)
    \/ \E id \in TaskIds : SearchCall(id)
    \/ \E id \in TaskIds : SearchFails(id)
    \/ \E id \in TaskIds, n \in 0..DeeperResults : SearchReturns(id, n)
    \/ \E id \in TaskIds : NextResult(id)
    \/ \E id \in TaskIds : SleepReturns(id)
    \/ \E id \in TaskIds, saved \in BOOLEAN : Finish(id, saved)
    \/ \E id \in TaskIds : Return(id)
    \/ \E id \in AllIds : cancel_research(id)
    \/ \E websocket \in Conns, id \in TaskIds, alive \in BOOLEAN : WsOpen(websocket, id, alive)
    \/ \E websocket \in Conns : WsDrop(websocket)
    \/ \E websocket \in Conns : WsDisconnect(websocket)
    \/ \E websocket \in Conns : WsCancel(websocket)
    \/ \E websocket \in Conns : WsPing(websocket)

Spec == Init /\ [][Next]_vars

InitPair ==
    InitWith(Limits(PairTasks, PairConns, PairIssues, MaxTopics, MaxSources, AdapterMax,
                    PairCandidates, FALSE))

SpecPair == InitPair /\ [][Next]_vars

InitSolo ==
    InitWith(Limits(1, SoloConns, SoloIssues, SoloTopics, SoloSources, SoloResults,
                    SoloCandidates, FALSE))

SpecSolo == InitSolo /\ [][Next]_vars

(***************************************************************************)
(* The adapter is down: every search raises. The event loop runs every     *)
(* routine that is ready, so each routine's steps are weakly fair.         *)
(***************************************************************************)
RoutineDown(id) ==
    \/ RoutineStart(id)
    \/ SearchCall(id)
    \/ SearchFails(id)
    \/ \E saved \in BOOLEAN : Finish(id, saved)
    \/ Return(id)

NextDown ==
    \/ \E name \in RosterNames, issues \in IssueLists, depth \in Depths,
          include_voting_records \in BOOLEAN, max_sources \in SourceCaps :
          research_candidate(name, issues, depth, include_voting_records, max_sources)
    \/ \E name \in OtherNames : research_candidate(name, <<>>, "standard", TRUE, 1)
    \/ \E candidates \in CandidateLists : compare_candidates(candidates)
    \/ \E id \in TaskIds : RoutineStart(id)
    \/ \E id \in TaskIds : SearchCall(id)
    \/ \E id \in TaskIds : SearchFails(id)
    \/ \E id \in TaskIds, saved \in BOOLEAN : Finish(id, saved)
    \/ \E id \in TaskIds : Return(id)
    \/ \E id \in AllIds : cancel_research(id)
    \/ \E websocket \in Conns, id \in TaskIds, alive \in BOOLEAN : WsOpen(websocket, id, alive)
    \/ \E websocket \in Conns : WsDrop(websocket)
    \/ \E websocket \in Conns : WsDisconnect(websocket)
    \/ \E websocket \in Conns : WsCancel(websocket)
    \/ \E websocket \in Conns : WsPing(websocket)

InitDown ==
    InitWith(Limits(DownTasks, DownConns, DownIssues, MaxTopics, MaxSources, AdapterMax,
                    DownCandidates, FALSE))

SpecDown ==
    /\ InitDown
    /\ [][NextDown]_vars
    /\ \A id \in 1..DownTasks : WF_vars(RoutineDown(id))

(***************************************************************************)
(* Fair scheduling: the event loop resumes every routine that is ready,    *)
(* every search call returns or raises, every delay and every send ends.   *)
(* Requests and sockets come and go as they like.                          *)
(***************************************************************************)
Routine(id) ==
    \/ RoutineStart(id)
    \/ SearchCall(id)
    \/ SearchFails(id)
    \/ \E n \in 0..DeeperResults : SearchReturns(id, n)
    \/ NextResult(id)
    \/ SleepReturns(id)
    \/ \E saved \in BOOLEAN : Finish(id, saved)
    \/ Return(id)

InitFair ==
    InitWith(Limits(FairTasks, FairConns, FairIssues, MaxTopics, MaxSources, AdapterMax,
                    FairCandidates, FALSE))

SpecFair ==
    /\ InitFair
    /\ [][Next]_vars
    /\ \A id \in 1..FairTasks : WF_vars(Routine(id))

(***************************************************************************)
(* The broadcast of cancel_research, send by send. `await send_json` gives *)
(* up the event loop, so channel handlers run between two deliveries. The  *)
(* loop of broadcast_to_research iterates the bucket list itself, not a    *)
(* copy: a remove or an append by another handler changes what the         *)
(* iterator yields next.                                                   *)
(***************************************************************************)
InFlight == flight # NoFlight

(* The connection objects the suspended broadcast still refers to. *)
FlightRefs == IF InFlight THEN {flight.to} \cup SeqRange(flight.disconnected) ELSE {}

(* cancel_research up to the first send_json of the broadcast. *)
CancelSends(id) ==
    /\ HandlerMayRun
    /\ ~InFlight
    /\ Known(id)
    /\ CancelOutcome(id) = "cancelled"
    /\ Bucket(id) # <<>>
    /\ task' = [task EXCEPT ![id].status = "cancelled"]
    /\ active_tasks' = active_tasks \ {id}
    /\ progress_cache' = (id :> ErrorMsg(CancelledByUser)) @@ progress_cache
    /\ flight' = [id |-> id, message |-> ErrorMsg(CancelledByUser), i |-> 1,
                  to |-> Bucket(id)[1], disconnected |-> <<>>, attached |-> TRUE,
                  stayed |-> SeqRange(Bucket(id))]
    /\ UNCHANGED <<completed_research, files, frame, running, active_connections, ws,
                   received, resp, limits>>

(* The pending send_json returns or raises; the iterator yields the next connection, or the
   loop ends, the disconnected are removed and cancel_research answers. *)
SendReturns ==
    /\ HandlerMayRun
    /\ InFlight
    /\ LET id == flight.id
           raised == SendRaises(flight.to)
           disconnected == IF raised THEN Append(flight.disconnected, flight.to)
                           ELSE flight.disconnected
           list == IF flight.attached THEN Bucket(id) ELSE <<>>
           delivered == IF raised THEN received
                        ELSE [received EXCEPT ![flight.to] = flight.message]
       IN  IF flight.i < Len(list)
           THEN /\ flight' = [flight EXCEPT !.i = flight.i + 1, !.to = list[flight.i + 1],
                                            !.disconnected = disconnected]
                /\ received' = delivered
                /\ UNCHANGED <<active_connections, ws, resp>>
           ELSE /\ flight' = NoFlight
                /\ active_connections' = DisconnectEach(active_connections, disconnected, id)
                /\ ws' = [c \in Conns |->
                            IF c \in SeqRange(disconnected) /\ ws[c].st = "exited"
                            THEN IdleSocket ELSE ws[c]]
                /\ received' = [c \in Conns |->
                                  IF c \in SeqRange(disconnected) /\ ws[c].st = "exited"
                                  THEN NoMsg ELSE delivered[c]]
                /\ resp' = Response("cancel", id, "cancelled")
    /\ UNCHANGED <<store, frame, running, progress_cache, limits>>

(* connect while a broadcast may be suspended: a new connection is a new object. *)
WsJoin(websocket, id, alive) ==
    /\ websocket \notin FlightRefs
    /\ WsOpen(websocket, id, alive)

(* The handler of a channel disconnects while a broadcast may be suspended: a bucket that
   becomes empty is deleted, and the iterator keeps the detached, empty list. *)
WsLeave(websocket) ==
    /\ HandlerMayRun
    /\ ws[websocket].st \in {"open", "broken"}
    /\ active_connections' = disconnect(active_connections, websocket, ws[websocket].id)
    /\ ws' = [ws EXCEPT ![websocket] = IdleSocket]
    /\ received' = [received EXCEPT ![websocket] = NoMsg]
    /\ flight' = IF InFlight /\ flight.id = ws[websocket].id
                 THEN [flight EXCEPT
                          !.attached = flight.attached /\ flight.id \in DOMAIN active_connections',
                          !.stayed = flight.stayed \ {websocket}]
                 ELSE flight
    /\ UNCHANGED <<store, frame, running, progress_cache, resp, limits>>

NextFanout ==
    \/ \E name \in RosterNames, issues \in IssueLists, depth \in Depths,
          include_voting_records \in BOOLEAN, max_sources \in SourceCaps :
          research_candidate(name, issues, depth, include_voting_records, max_sources)
    \/ \E id \in TaskIds : RoutineStart(id)
    \/ \E id \in TaskIds : SearchCall(id)
    \/ \E id \in TaskIds : CancelSends(id)
    \/ SendReturns
    \/ \E websocket \in Conns, id \in TaskIds, alive \in BOOLEAN : WsJoin(websocket, id, alive)
    \/ \E websocket \in Conns : WsDrop(websocket)
    \/ \E websocket \in Conns : WsLeave(websocket)

InitFanout ==
    InitWith(Limits(FanoutTasks, FanoutConns, 0, MaxTopics, MaxSources, AdapterMax,
                    MaxCandidates, TRUE))

SpecFanout == InitFanout /\ [][NextFanout]_vars

(***************************************************************************)
(* Views used by the properties.                                           *)
(***************************************************************************)
Terminal == {"completed", "failed", "cancelled"}

(* cancel_research is the only code that removes a record from the active set while
   its status is not "completed": such an id has been cancelled. *)
WasCancelled(id) ==
    id \in created /\ id \notin active_tasks /\ task[id].status # "completed"

SaveFailed(id) == id \in created /\ task[id].current_task = Label("Error: OSError", 0)

(***************************************************************************)
(* C1: after cancel(id) succeeded on a processing task, every later        *)
(* get_status(id) returns a record whose status is cancelled.              *)
(* Fails: cancel deletes the record from the active set, so get_status     *)
(* finds nothing, and when the routine ends it finds status failed.        *)
(***************************************************************************)
C1_CancelledStaysVisible ==
    \A id \in TaskIds :
        (WasCancelled(id) /\ running = {}) => get_task_status(id).status = "cancelled"

(***************************************************************************)
(* C2: the terminal states are absorbing: once the status of a task is     *)
(* completed, failed or cancelled, no step changes it.                     *)
(* Fails: the routine of a cancelled task runs on, marks the record        *)
(* completed and then, on the KeyError of the delete, failed.              *)
(***************************************************************************)
C2_TerminalAbsorbing ==
    [][\A id \in TaskIds :
          (id \in created /\ task[id].status \in Terminal)
              => task'[id].status = task[id].status]_vars

(***************************************************************************)
(* C3: every created id has its record in exactly one of the active set    *)
(* and the completed set.                                                  *)
(* Fails: after cancel the record is in neither.                           *)
(***************************************************************************)
C3_ExactlyOneStore ==
    \A id \in TaskIds :
        id \in created => ((id \in active_tasks) # (id \in completed_research))

(***************************************************************************)
(* C4: a single-subject task never holds more discovered items than its    *)
(* max_sources.                                                            *)
(* Fails: the break at the cap leaves only the loop over one query's       *)
(* results; the next query appends again.                                  *)
(***************************************************************************)
C4_SourcesWithinCap ==
    \A id \in TaskIds :
        (id \in created /\ frame[id].kind = "candidate")
            => /\ frame[id].sources <= frame[id].max_sources
               /\ task[id].sources_found <= frame[id].max_sources

(***************************************************************************)
(* C5: for tasks of both kinds percent_complete, as get_status returns it, *)
(* never decreases from creation until the task is terminal.               *)
(***************************************************************************)
C5_PercentMonotone ==
    [][\A id \in TaskIds :
          (id \in created /\ task[id].status = "processing")
              => task'[id].percent_complete >= task[id].percent_complete]_vars

C5_Witness ==
    \E id \in TaskIds :
        /\ id \in created
        /\ Total(frame[id]) = QueryLimit
        /\ frame[id].pc = "sent_analyze"
        /\ get_task_status(id).percent_complete = AnalyzePercent

(***************************************************************************)
(* C6: every create returns an id no earlier create returned, and          *)
(* get_status(id) right after the create finds the record with status      *)
(* processing and percent_complete 0.                                      *)
(* The step that schedules a routine (a frame at "start" that was not      *)
(* there before) is the create; its id must be new.                        *)
(***************************************************************************)
Scheduled(id) == id \in created /\ frame[id].pc = "start"

C6_FreshIdResolvable ==
    [][\A id \in TaskIds :
          (Scheduled(id)' /\ ~Scheduled(id))
              => /\ id \notin created
                 /\ get_task_status(id)'.status = "processing"
                 /\ get_task_status(id)'.percent_complete = 0
                 /\ \A other \in created :
                       /\ task'[other] = task[other]
                       /\ frame'[other] = frame[other]]_vars

C6_Witness ==
    \E id \in TaskIds :
        /\ Scheduled(id)
        /\ Cardinality(created) = 2
        /\ get_task_status(id).status = "processing"

(***************************************************************************)
(* C7: the query builder returns at most 5 queries for every topic list,   *)
(* depth and extended-search flag, and the routine of a single-subject     *)
(* task calls the search adapter at most 5 times.                          *)
(***************************************************************************)
C7_AtMostFiveQueries ==
    /\ \A issues \in IssueLists, depth \in Depths, include_voting_records \in BOOLEAN :
          Len(_build_search_queries(issues, depth, include_voting_records)) <= QueryLimit
    /\ \A id \in TaskIds :
          (id \in created /\ frame[id].kind = "candidate")
              => /\ Total(frame[id]) <= QueryLimit
                 /\ frame[id].calls <= QueryLimit

C7_Witness ==
    \E id \in TaskIds :
        /\ id \in created
        /\ frame[id].kind = "candidate"
        /\ frame[id].calls = QueryLimit
        /\ frame[id].pc = "done"
        /\ \E issues \in IssueLists :
              Len(IssueQueries(issues, "deep")) > QueryLimit

CompletedEmpty(id) ==
    /\ id \in created
    /\ get_task_status(id).status = "completed"
    /\ get_task_status(id).sources_found = 0
    /\ frame[id].sources = 0

Broadcasts == {"progress", "source", "complete", "error"}

Joins(c) == ws[c].st = "idle" /\ ws'[c].st = "open"

C9_ReplayOnJoin ==
    /\ [][\A c \in Conns :
             (Joins(c) /\ ws'[c].id \in DOMAIN progress_cache)
                 => /\ received'[c] = progress_cache[ws'[c].id]
                    /\ c \in SeqRange(active_connections'[ws'[c].id])]_vars
    /\ [](\A c \in Conns :
             (ws[c].st = "open" /\ received[c].type \in Broadcasts)
                 => /\ ws[c].id \in DOMAIN progress_cache
                    /\ received[c] = progress_cache[ws[c].id])

C9_Witness ==
    /\ resp.op = "connect"
    /\ resp.res = "replayed"
    /\ Len(Bucket(resp.id)) = 2
    /\ \E c \in Conns :
          /\ ws[c] = [st |-> "open", id |-> resp.id]
          /\ received[c] = progress_cache[resp.id]
          /\ received[c].type = "source"

(***************************************************************************)
(* C10: cancel(id) answers InvalidState for a task that is completed,      *)
(* failed or already cancelled, NotFound only for an id never created, and *)
(* a failing cancel changes nothing.                                       *)
(* Fails: a cancelled task has left both stores, so a second cancel        *)
(* answers NotFound.                                                       *)
(***************************************************************************)
C10_CancelAnswers ==
    \A id \in AllIds :
        running = {} =>
            /\ (id \notin created) => CancelOutcome(id) = "NotFound"
            /\ (id \in created /\ task[id].status \in Terminal)
                   => CancelOutcome(id) = "InvalidState"
            /\ (id \in created /\ task[id].status = "processing")
                   => CancelOutcome(id) = "cancelled"

(***************************************************************************)
(* C11: after cancel(id) succeeded, every later write of the routine to    *)
(* the record is a no-op: status, percent_complete, current_task and       *)
(* sources_found keep their values and the record enters neither store.    *)
(* Fails: the routine never looks at the status; it goes on writing the    *)
(* progress, marks the record completed and inserts it into                *)
(* completed_research.                                                     *)
(***************************************************************************)
C11_CancelledWritesDiscarded ==
    [][\A id \in TaskIds :
          (WasCancelled(id) /\ task[id].status = "cancelled")
              => /\ task'[id] = task[id]
                 /\ id \notin active_tasks'
                 /\ id \notin completed_research']_vars

(***************************************************************************)
(* ResearchTaskManager.get_results: the payload is the results file.       *)
(***************************************************************************)
(* A lookup that returns whatever file is there. *)
get_results_latest(id) == files # {}

get_results(id) == id \in files

(***************************************************************************)
(* C12: get_results(id) returns a payload only if the status of the task   *)
(* is completed; no results file is written for a cancelled or failed      *)
(* task.                                                                   *)
(* Fails: the routine of a cancelled task writes its results file and      *)
(* then fails on the delete from active_tasks.                             *)
(***************************************************************************)
C12_ArchiveOnlyIfCompleted ==
    \A id \in TaskIds :
        get_results(id) => (id \in created /\ task[id].status = "completed")

(***************************************************************************)
(* C13: when the routine of a task ends because of an error that escaped   *)
(* the recovery inside the loop (the results file cannot be written, the   *)
(* record is no longer in active_tasks at the delete), the status is       *)
(* failed, current_task carries the text of the error and an error message *)
(* with that text has been broadcast for the id; no routine ends with      *)
(* status processing.                                                      *)
(* The lookup at the head of the routine cannot miss: the routine runs its *)
(* first stretch before the id has left the create handler.                *)
(***************************************************************************)
Errors == {"OSError", "KeyError"}

Escapes(id) == id \in created /\ frame[id].pc # "sent_error" /\ frame'[id].pc = "sent_error"

C13_EscapedErrorMarksFailed ==
    /\ [][\A id \in TaskIds :
             Escapes(id) =>
                 \E error \in Errors :
                     /\ task'[id].status = "failed"
                     /\ task'[id].current_task = Label(ErrorLabel(error), 0)
                     /\ progress_cache'[id] = ErrorMsg(error)
                     /\ \A c \in SeqRange(Bucket(id)) :
                           ~SendRaises(c) => received'[c] = ErrorMsg(error)]_vars
    /\ [](\A id \in TaskIds :
             (id \in created /\ frame[id].pc \in {"sent_error", "done"})
                 => /\ task[id].status \in {"completed", "failed"}
                    /\ task[id].status = "failed"
                          => \E error \in Errors :
                                /\ task[id].current_task = Label(ErrorLabel(error), 0)
                                /\ progress_cache[id] = ErrorMsg(error))

C13_Witness ==
    \E id \in TaskIds :
        /\ SaveFailed(id)
        /\ frame[id].pc = "done"
        /\ get_task_status(id).status = "failed"
        /\ \E c \in Conns : ws[c].st = "open" /\ received[c] = ErrorMsg("OSError")

(***************************************************************************)
(* C14: compare_candidates with fewer than 2 or more than 5 candidates, or *)
(* with a candidate that is not on the roster, answers InvalidArgument,    *)
(* inserts no record and schedules no routine.                             *)
(* Fails: a list of the right length with an unknown candidate is answered *)
(* 404 "not found", the NotFound of the single-candidate create. (Nothing  *)
(* is inserted or scheduled in either case.)                               *)
(***************************************************************************)
HasUnknown(candidates) ==
    \E i \in 1..Len(candidates) : _get_candidate_info(candidates[i]) = NoCandidate

C14_CompareRejectsInvalid ==
    [][\A candidates \in CandidateLists :
          (/\ compare_candidates(candidates)
           /\ ~CompareRequestValid(candidates) \/ HasUnknown(candidates))
              => /\ resp'.res = "InvalidArgument"
                 /\ UNCHANGED <<task, active_tasks, frame>>]_vars

(***************************************************************************)
(* The steps that call broadcast_to_research for an id: a step of the      *)
(* routine that ends in the await of a send, and a cancel that succeeds.   *)
(***************************************************************************)
SentPcs == {"sent_progress", "sent_source", "sent_analyze", "sent_complete", "sent_error"}

RoutineBroadcasts(id) ==
    id \in created /\ frame'[id] # frame[id] /\ frame'[id].pc \in SentPcs

CancelBroadcasts(id) ==
    id \in created /\ task[id].status = "processing" /\ task'[id].status = "cancelled"

Broadcasting(id) == RoutineBroadcasts(id) \/ CancelBroadcasts(id)

WritesRecord(id) == id \in created /\ task'[id] # task[id]

CacheChanges(id) ==
    /\ id \in DOMAIN progress_cache'
    /\ id \in DOMAIN progress_cache => progress_cache'[id] # progress_cache[id]

RoutineSteps(id) == id \in created /\ frame'[id] # frame[id]

Produced(id) ==
    CASE frame[id].pc \in {"sent_progress", "sent_analyze"}
            -> ProgressMsg(task[id].percent_complete, frame[id].sources)
      [] frame[id].pc = "sent_source" -> SourceMsg(frame[id].sources)
      [] frame[id].pc = "sent_complete" -> CompleteMsg(frame[id].sources)
      [] OTHER -> ErrorMsg(CHOOSE error \in Errors :
                              task[id].current_task = Label(ErrorLabel(error), 0))

(***************************************************************************)
(* C16 as claimed: every write to the record of an id and every broadcast  *)
(* for the id is made by a step of the routine of the id.                  *)
(* Fails: cancel_research writes the status and broadcasts the error       *)
(* message of the cancellation.                                            *)
(***************************************************************************)
C16_RoutineSoleWriter ==
    [][\A id \in TaskIds :
          (WritesRecord(id) \/ CacheChanges(id) \/ Broadcasting(id)) /\ id \in created
              => RoutineSteps(id)]_vars

(***************************************************************************)
(* C16 amended: the record of an id is written and messages for the id are *)
(* broadcast by the routine of the id, and besides it only by a cancel     *)
(* that succeeds, which sets the status to cancelled and broadcasts one    *)
(* error message. The messages of the routine are broadcast in the order   *)
(* it produces them: each of its sends broadcasts the message of that      *)
(* step, and no step of one id touches the record, the routine or the      *)
(* cached message of another id.                                           *)
(***************************************************************************)
C16_RoutineAndCancelOnlyWriters ==
    [][\A id \in TaskIds :
          /\ ((WritesRecord(id) \/ CacheChanges(id)) /\ id \in created)
                => \/ RoutineSteps(id)
                   \/ /\ cancel_research(id)
                      /\ task'[id] = [task[id] EXCEPT !.status = "cancelled"]
                      /\ progress_cache'[id] = ErrorMsg(CancelledByUser)
          /\ RoutineBroadcasts(id) => progress_cache'[id] = Produced(id)'
          /\ (RoutineSteps(id) /\ ~RoutineBroadcasts(id))
                => (progress_cache' = progress_cache /\ received' = received)
          /\ RoutineSteps(id) =>
                \A other \in created \ {id} :
                    /\ task'[other] = task[other]
                    /\ frame'[other] = frame[other]
                    /\ other \in DOMAIN progress_cache
                          => progress_cache'[other] = progress_cache[other]]_vars

C16_Witness ==
    \E id, other \in TaskIds :
        /\ id # other
        /\ id \in created /\ other \in created
        /\ task[id].status = "cancelled"
        /\ progress_cache[id] = ErrorMsg(CancelledByUser)
        /\ frame[id].pc = "sent_progress"
        /\ other \in DOMAIN progress_cache
        /\ progress_cache[other].type = "source"
        /\ frame[other].pc = "sent_source"

(***************************************************************************)
(* C17: the query list of a single-candidate task is the first 5 entries   *)
(* (all, if fewer) of: for each issue in order, one query at depth quick   *)
(* or two at standard and deep; then one general query at standard and     *)
(* deep; then one voting-record query at deep with include_voting_records. *)
(* Two issues at quick give exactly 2 queries; the length is               *)
(* min(5, k * |issues| + g + h).                                           *)
(* The list is stated entry by entry, by its index.                        *)
(***************************************************************************)
PerIssue(depth) == IF depth = "quick" THEN 1 ELSE 2

General(depth) == IF depth \in {"standard", "deep"} THEN 1 ELSE 0

Historical(depth, include_voting_records) ==
    IF depth = "deep" /\ include_voting_records THEN 1 ELSE 0

ExpectedLength(issues, depth, include_voting_records) ==
    Min(QueryLimit,
        PerIssue(depth) * Len(issues) + General(depth)
            + Historical(depth, include_voting_records))

ExpectedQuery(issues, depth, i) ==
    LET k == PerIssue(depth)
    IN  IF i <= k * Len(issues)
        THEN Query(IF k = 1 THEN "position" ELSE IF i % 2 = 1 THEN "policy" ELSE "voting",
                   issues[(i + k - 1) \div k])
        ELSE IF i = k * Len(issues) + 1 /\ General(depth) = 1
        THEN Query("campaign", NoIssue)
        ELSE Query("board", NoIssue)

ExpectedQueries(issues, depth, include_voting_records) ==
    [i \in 1..ExpectedLength(issues, depth, include_voting_records) |->
        ExpectedQuery(issues, depth, i)]

C17_QueryListShape ==
    /\ \A issues \in IssueLists, depth \in Depths, include_voting_records \in BOOLEAN :
          /\ _build_search_queries(issues, depth, include_voting_records)
                = ExpectedQueries(issues, depth, include_voting_records)
          /\ (Len(issues) = 2 /\ depth = "quick")
                => Len(_build_search_queries(issues, depth, include_voting_records)) = 2
    /\ \A id \in TaskIds :
          (id \in created /\ frame[id].kind = "candidate")
              => \E issues \in IssueLists, depth \in Depths,
                    include_voting_records \in BOOLEAN :
                    frame[id].items = ExpectedQueries(issues, depth, include_voting_records)

C17_Witness ==
    \E id \in TaskIds :
        /\ id \in created
        /\ frame[id].kind = "candidate"
        /\ frame[id].pc = "search"
        /\ Len(frame[id].items) = QueryLimit
        /\ frame[id].items[1] = Query("policy", "housing")
        /\ frame[id].items[4] = Query("voting", "transit")
        /\ frame[id].items[5] = Query("policy", "housing")

(***************************************************************************)
(* C18: disconnect(websocket, id) is idempotent: applied twice it leaves   *)
(* the buckets and the cached messages that one application leaves; for a  *)
(* websocket that is not in the bucket of id, or an id without a bucket,   *)
(* it changes nothing (and does not raise: it has a result in every        *)
(* case). The second application happens when a broadcast has evicted a    *)
(* connection and its handler then sees the disconnect.                    *)
(***************************************************************************)
Registered(websocket, id) ==
    id \in DOMAIN active_connections /\ websocket \in SeqRange(active_connections[id])

HandlerDisconnects(c) == ws[c].st \in {"open", "broken"} /\ ws'[c] = IdleSocket

C18_UnregisterIdempotent ==
    /\ [](\A websocket \in Conns, id \in AllIds :
             LET once == disconnect(active_connections, websocket, id)
             IN  /\ disconnect(once, websocket, id) = once
                 /\ DOMAIN once \subseteq DOMAIN active_connections
                 /\ ~Registered(websocket, id) => once = active_connections)
    /\ [][\A c \in Conns :
             HandlerDisconnects(c)
                 => /\ active_connections' = disconnect(active_connections, c, ws[c].id)
                    /\ progress_cache' = progress_cache
                    /\ ~Registered(c, ws[c].id)
                          => active_connections' = active_connections]_vars

C18_Witness ==
    \E c \in Conns :
        /\ ws[c].st = "broken"
        /\ ws[c].id \in DOMAIN active_connections
        /\ ~Registered(c, ws[c].id)
        /\ ws[c].id \in DOMAIN progress_cache

(***************************************************************************)
(* C19: when the last connection of an id is removed, by its handler's     *)
(* disconnect or by the eviction of a broadcast, the bucket of the id is   *)
(* deleted and the cached message of the id stays: the handler's           *)
(* disconnect leaves the cache as it is, the evicting broadcast leaves in  *)
(* it the message it has just cached. Only a broadcast changes the cached  *)
(* message, and a later connect on the id replays exactly the cached one.  *)
(***************************************************************************)
BucketRemoved(id) ==
    id \in DOMAIN active_connections /\ id \notin DOMAIN active_connections'

FirstJoin(c, id) ==
    /\ ws[c].st = "idle"
    /\ ws'[c] = [st |-> "open", id |-> id]
    /\ id \notin DOMAIN active_connections

C19_CacheOutlivesBucket ==
    [][\A id \in TaskIds :
          /\ BucketRemoved(id) =>
                IF Broadcasting(id)
                THEN progress_cache'[id] =
                        IF RoutineBroadcasts(id) THEN Produced(id)'
                        ELSE ErrorMsg(CancelledByUser)
                ELSE /\ \E c \in Conns : HandlerDisconnects(c) /\ ws[c].id = id
                     /\ progress_cache' = progress_cache
          /\ CacheChanges(id) => Broadcasting(id)
          /\ id \in DOMAIN progress_cache => id \in DOMAIN progress_cache'
          /\ \A c \in Conns :
                (FirstJoin(c, id) /\ id \in DOMAIN progress_cache)
                    => /\ received'[c] = progress_cache[id]
                       /\ progress_cache' = progress_cache
                       /\ Bucket(id)' = <<c>>]_vars

C19_Witness ==
    \E c1, c2 \in Conns :
        /\ resp = Response("connect", ws[c1].id, "replayed")
        /\ ws[c1].st = "open"
        /\ Bucket(ws[c1].id) = <<c1>>
        /\ received[c1] = progress_cache[ws[c1].id]
        /\ ws[c2] = [st |-> "broken", id |-> ws[c1].id]

(***************************************************************************)
(* C20: a broadcast for an id without a bucket returns without an error,   *)
(* sends to no websocket and leaves exactly its message in the cache of    *)
(* the id: the routine goes on without giving up the event loop, a cancel  *)
(* is answered as done.                                                    *)
(***************************************************************************)
C20_BroadcastWithoutSubscribers ==
    [][\A id \in TaskIds :
          (Broadcasting(id) /\ id \notin DOMAIN active_connections)
              => /\ id \in DOMAIN progress_cache'
                 /\ progress_cache'[id] =
                       IF RoutineBroadcasts(id) THEN Produced(id)'
                       ELSE ErrorMsg(CancelledByUser)
                 /\ \A other \in DOMAIN progress_cache \ {id} :
                       progress_cache'[other] = progress_cache[other]
                 /\ DOMAIN progress_cache' = DOMAIN progress_cache \cup {id}
                 /\ UNCHANGED <<active_connections, ws, received>>
                 /\ RoutineBroadcasts(id) =>
                       /\ running' = {id}
                       /\ frame'[id].pc = "sent_error" => progress_cache'[id].type = "error"
                 /\ CancelBroadcasts(id) => resp' = Response("cancel", id, "cancelled")]_vars

C20_Witness ==
    \E id \in TaskIds :
        /\ id \in created
        /\ active_connections = <<>>
        /\ \A c \in Conns : ws[c] = IdleSocket /\ received[c] = NoMsg
        /\ running = {id}
        /\ frame[id].pc = "sent_complete"
        /\ progress_cache[id] = CompleteMsg(frame[id].sources)
        /\ frame[id].sources > 0

(***************************************************************************)
(* get_research_status (GET /api/v1/research/status/{research_id}) and     *)
(* get_research_results (GET /api/v1/research/results/{research_id}): the  *)
(* answer each gives in the current state.                                 *)
(***************************************************************************)
get_research_status(id) ==
    IF get_task_status(id) # NoTask THEN get_task_status(id).status
    ELSE IF get_results(id) THEN "completed"
    ELSE "NotFound"

get_research_results(id) ==
    IF get_task_status(id) # NoTask /\ get_task_status(id).status = "processing"
    THEN "InProgress"
    ELSE IF get_results(id) THEN "Payload"
    ELSE "NotFound"

(***************************************************************************)
(* C21: for an id no create has returned, get_status and get_results       *)
(* answer NotFound, whatever has been done with other tasks.               *)
(***************************************************************************)
C21_UnknownIdNotFound ==
    \A id \in AllIds \ created :
        /\ get_task_status(id) = NoTask
        /\ ~get_results(id)
        /\ get_research_status(id) = "NotFound"
        /\ get_research_results(id) = "NotFound"

C21_Witness ==
    \E id \in TaskIds \ created : \E other \in created :
        /\ get_research_results(other) = "Payload"
        /\ get_research_status(other) = "completed"
        /\ frame[other].pc = "done"
        /\ get_research_results(id) = "NotFound"

(***************************************************************************)
(* C22: research_candidate with a name that is not on the roster answers   *)
(* NotFound at once and leaves active_tasks, completed_research, the       *)
(* buckets and the cache as they are; no routine is scheduled.             *)
(***************************************************************************)
C22_UnknownCandidateRejected ==
    [][\A name \in OtherNames :
          research_candidate(name, <<>>, "standard", TRUE, 1)
              => /\ resp' = Response("create", 0, "NotFound")
                 /\ UNCHANGED <<task, active_tasks, completed_research, files, frame,
                                running, active_connections, progress_cache, ws,
                                received>>]_vars

C22_Witness ==
    /\ resp = Response("create", 0, "NotFound")
    /\ \E id \in TaskIds :
          /\ Known(id)
          /\ id \in active_tasks
          /\ Bucket(id) # <<>>

(***************************************************************************)
(* C23: a record with status completed has percent_complete 100, and once  *)
(* the status is failed or cancelled percent_complete never changes.       *)
(* Fails: the routine of a cancelled task goes on writing                  *)
(* percent_complete (the progress of each query, then 90 or 95, then 100). *)
(***************************************************************************)
C23_PercentPinned ==
    /\ [](\A id \in TaskIds :
             (id \in created /\ task[id].status = "completed")
                 => task[id].percent_complete = DonePercent)
    /\ [][\A id \in TaskIds :
             (id \in created /\ task[id].status \in {"failed", "cancelled"})
                 => task'[id].percent_complete = task[id].percent_complete]_vars

(***************************************************************************)
(* C24: a task whose status has become cancelled or failed never has       *)
(* status processing again.                                                *)
(***************************************************************************)
C24_NoReturnToProcessing ==
    [][\A id \in TaskIds :
          (id \in created /\ task[id].status \in {"cancelled", "failed"})
              => task'[id].status # "processing"]_vars

C24_Witness ==
    \E id \in TaskIds :
        /\ id \in created
        /\ task[id].status = "failed"
        /\ task[id].current_task = Label(ErrorLabel("KeyError"), 0)
        /\ task[id].sources_found > 0
        /\ frame[id].pc = "done"

(***************************************************************************)
(* C26: a complete message for an id is broadcast only when the results    *)
(* file of the id is written and the record is in completed_research with  *)
(* status completed and percent_complete 100: whenever a connection holds  *)
(* a complete message, or the cache of the id does, get_results(id)        *)
(* returns the payload and get_status(id) returns completed.               *)
(***************************************************************************)
Archived(id) ==
    /\ get_results(id)
    /\ id \in completed_research
    /\ id \notin active_tasks
    /\ get_task_status(id).status = "completed"
    /\ get_task_status(id).percent_complete = DonePercent
    /\ get_research_results(id) = "Payload"
    /\ get_research_status(id) = "completed"

C26_CompleteAfterArchive ==
    /\ \A c \in Conns :
          (ws[c].st # "idle" /\ received[c].type = "complete") => Archived(ws[c].id)
    /\ \A id \in DOMAIN progress_cache :
          progress_cache[id].type = "complete" => Archived(id)

C26_Witness ==
    \E c \in Conns :
        /\ ws[c].st = "open"
        /\ received[c] = CompleteMsg(frame[ws[c].id].sources)
        /\ frame[ws[c].id].pc = "sent_complete"
        /\ Archived(ws[c].id)

(***************************************************************************)
(* C29: a task of either kind that becomes completed had percent_complete  *)
(* at 90 and a progress message with percent 90 broadcast after its last   *)
(* query and before the complete message.                                  *)
(* Fails: the comparison routine sets 95 after its loop and broadcasts no  *)
(* progress message there.                                                 *)
(***************************************************************************)
C29_NinetyBeforeComplete ==
    [][\A id \in TaskIds :
          (id \in created /\ task[id].status # "completed"
                /\ task'[id].status = "completed")
              => /\ task[id].percent_complete = AnalyzePercent
                 /\ id \in DOMAIN progress_cache
                 /\ progress_cache[id] = ProgressMsg(AnalyzePercent, frame[id].sources)]_vars

(***************************************************************************)
(* C30: between two consecutive calls of the search of one task the        *)
(* routine sleeps, whether the earlier call returned or raised: the loop   *)
(* reaches the top of a later pass only from the sleep.                    *)
(* Fails: when the search raises, the continue of the inner except skips   *)
(* the sleep.                                                              *)
(***************************************************************************)
C30_SleepBetweenSearches ==
    [][\A id \in TaskIds :
          (id \in created /\ frame'[id] # frame[id]
                /\ frame'[id].pc = "sent_progress" /\ frame'[id].idx > 0)
              => frame[id].pc = "sleep"]_vars

(***************************************************************************)
(* C25: under fair scheduling, with a search whose every call returns or   *)
(* raises, every created task that is not cancelled eventually is          *)
(* completed or failed, and no task stays in processing forever.           *)
(***************************************************************************)
Ended(id) ==
    id \in created /\ (task[id].status \in {"completed", "failed"} \/ WasCancelled(id))

LeftProcessing(id) == id \in created /\ task[id].status # "processing"

C25_EveryTaskEnds ==
    \A id \in 1..FairTasks :
        /\ (id \in created) ~> Ended(id)
        /\ (id \in created) ~> LeftProcessing(id)

C25_Witness ==
    \E id \in TaskIds :
        /\ id \in created
        /\ ~WasCancelled(id)
        /\ get_task_status(id).status = "completed"
        /\ frame[id].calls >= 2
        /\ frame[id].sources > 0
        /\ frame[id].pc = "done"

(***************************************************************************)
(* C27: a broadcast delivers its message to every connection that is       *)
(* registered for the id during the whole call and can receive, also when  *)
(* another connection of the id is unregistered by its own handler while   *)
(* the broadcast is suspended in a delivery: when the broadcast returns,   *)
(* each such connection has received the message.                          *)
(* Fails: the loop iterates the bucket list itself; a remove of an earlier *)
(* element during the suspension shifts the later ones under the iterator, *)
(* which then skips one or ends early.                                     *)
(***************************************************************************)
C27_NoSubscriberSkipped ==
    [][(InFlight /\ SendReturns /\ flight' = NoFlight)
          => \A c \in flight.stayed :
                ws[c].st = "open" => received'[c] = flight.message]_vars

(***************************************************************************)
(* C28: a broadcast message reaches a connection at most once: the loop of *)
(* a broadcast does not deliver the message to a connection that already   *)
(* has it from the replay of its connect.                                  *)
(* Fails: connect appends to the bucket list the loop is iterating and     *)
(* replays the cached message, which the broadcast has already set; the    *)
(* iterator then yields the new connection and the loop sends again.       *)
(***************************************************************************)
C28_DeliveredAtMostOnce ==
    [][(InFlight /\ SendReturns /\ ~SendRaises(flight.to))
          => received[flight.to] # flight.message]_vars

(***************************************************************************)
(* C31: tasks are independent: a step of the routine of task a, and        *)
(* cancel_research(a), leave the record of every other task b, its         *)
(* membership of the active and the completed set, its bucket and its      *)
(* cached message unchanged.                                               *)
(***************************************************************************)
SameFor(b) ==
    /\ task'[b] = task[b]
    /\ (b \in active_tasks') = (b \in active_tasks)
    /\ (b \in completed_research') = (b \in completed_research)
    /\ (b \in DOMAIN active_connections') = (b \in DOMAIN active_connections)
    /\ (b \in DOMAIN active_connections => active_connections'[b] = active_connections[b])
    /\ (b \in DOMAIN progress_cache') = (b \in DOMAIN progress_cache)
    /\ (b \in DOMAIN progress_cache => progress_cache'[b] = progress_cache[b])
    /\ (b \in files') = (b \in files)

C31_TasksIndependent ==
    [][\A a \in TaskIds : \A b \in created \ {a} :
          (Routine(a) \/ cancel_research(a)) => SameFor(b)]_vars

C31_Witness ==
    \E a \in TaskIds : \E b \in TaskIds \ {a} :
        /\ WasCancelled(a)
        /\ frame[a].pc = "done"
        /\ a \in DOMAIN progress_cache
        /\ b \in active_tasks
        /\ task[b].status = "processing"
        /\ task[b].percent_complete > 0
        /\ Bucket(b) # <<>>
        /\ b \in DOMAIN progress_cache

(***************************************************************************)
(* C32: after cancel_research has broadcast its error message for an id,   *)
(* no progress, source or complete message is broadcast for the id: the    *)
(* cached message of the id stays the cancellation error, which is what a  *)
(* later connect replays.                                                  *)
(* Fails: the routine of a cancelled task goes on broadcasting.            *)
(***************************************************************************)
C32_CancellationStaysCached ==
    [][\A id \in TaskIds :
          (id \in DOMAIN progress_cache /\ progress_cache[id] = ErrorMsg(CancelledByUser))
              => /\ id \in DOMAIN progress_cache'
                 /\ progress_cache'[id] = ErrorMsg(CancelledByUser)]_vars

(***************************************************************************)
(* C33: every record in the active set has status processing: a task that  *)
(* fails is removed from the active set.                                   *)
(* Fails: the outer except marks the record failed and leaves it in        *)
(* active_tasks.                                                           *)
(***************************************************************************)
C33_ActiveAreProcessing ==
    \A id \in active_tasks : task[id].status = "processing"

(***************************************************************************)
(* C34: every record in the completed set has status completed, also when  *)
(* a cancel interleaves with the last steps of the routine.                *)
(* Fails: the routine of a cancelled task stores the record in             *)
(* completed_research before its del of the active entry raises, and the   *)
(* outer except then marks that record failed.                             *)
(***************************************************************************)
C34_CompletedAreCompleted ==
    \A id \in completed_research : task[id].status = "completed"

(***************************************************************************)
(* C35: for no id are both a complete message and an error message ever    *)
(* broadcast, however the routine and cancel_research interleave.          *)
(* The record tells which of the two has been broadcast: a step that       *)
(* broadcasts an error leaves the task cancelled or failed, a step that    *)
(* broadcasts a complete message leaves it completed, both marks are       *)
(* permanent and exclude each other, and neither broadcast happens when    *)
(* the mark of the other is set.                                           *)
(***************************************************************************)
ErrorBroadcast(id) ==
    Broadcasting(id) /\ id \in DOMAIN progress_cache' /\ progress_cache'[id].type = "error"

CompleteBroadcast(id) ==
    Broadcasting(id) /\ id \in DOMAIN progress_cache' /\ progress_cache'[id].type = "complete"

ErrorNotified(id) == id \in created /\ (WasCancelled(id) \/ task[id].status = "failed")

CompleteNotified(id) == id \in created /\ task[id].status = "completed"

C35_CompleteXorError ==
    [][\A id \in TaskIds :
          id \in created =>
              /\ ErrorBroadcast(id) => (~CompleteNotified(id) /\ ErrorNotified(id)')
              /\ CompleteBroadcast(id) => (~ErrorNotified(id) /\ CompleteNotified(id)')
              /\ ErrorNotified(id) => ErrorNotified(id)'
              /\ CompleteNotified(id) => CompleteNotified(id)'
              /\ ~(ErrorNotified(id)' /\ CompleteNotified(id)')]_vars

C35_Witness ==
    \E id \in TaskIds : \E c \in Conns :
        /\ id \in created
        /\ id \in completed_research
        /\ task[id].status = "failed"
        /\ task[id].percent_complete = DonePercent
        /\ frame[id].pc = "done"
        /\ get_results(id)
        /\ ws[c] = [st |-> "open", id |-> id]
        /\ received[c] = ErrorMsg("KeyError")

(***************************************************************************)
(* C36: when the handler of a channel has ended (the client disconnected,  *)
(* the transport failed, or the client sent "cancel"), its connection is   *)
(* in no bucket.                                                           *)
(* Fails: on "cancel" the handler leaves its loop by break and never calls *)
(* disconnect; the connection stays in the bucket until a broadcast fails  *)
(* on it.                                                                  *)
(***************************************************************************)
HandlerEnded(c) == ws[c].st \in {"idle", "exited"}

C36_EndedHandlerUnregistered ==
    \A c \in Conns :
        HandlerEnded(c) => \A id \in DOMAIN active_connections : ~Registered(c, id)

(***************************************************************************)
(* C37: for a task of either kind, sources_found of the record equals the  *)
(* number of source messages broadcast for the task so far, and it never   *)
(* decreases.                                                              *)
(* Fails: the comparison routine broadcasts a source message per result    *)
(* and never writes sources_found.                                         *)
(***************************************************************************)
C37_SourcesFoundCountsNotices ==
    /\ [](\A id \in TaskIds :
             id \in created => task[id].sources_found = frame[id].sources)
    /\ [][\A id \in TaskIds :
             id \in created => task'[id].sources_found >= task[id].sources_found]_vars

(***************************************************************************)
(* C38: active_connections holds no empty bucket: an id is a key only      *)
(* while at least one connection is registered for it, however connect,    *)
(* disconnect and the sends of a broadcast interleave. (The same holds     *)
(* where the broadcast is one step.)                                       *)
(***************************************************************************)
C38_NoEmptyBucket ==
    \A id \in DOMAIN active_connections : active_connections[id] # <<>>

C38_Witness ==
    \E id \in TaskIds : \E c \in Conns : \E d \in Conns \ {c} :
        /\ ~InFlight
        /\ resp = Response("cancel", id, "cancelled")
        /\ id \notin DOMAIN active_connections
        /\ ws[c] = [st |-> "broken", id |-> id]
        /\ ws[d].st = "idle"
        /\ received[c] = NoMsg

====
